---- MODULE Spec2Model ----
(***************************************************************************)
(* lite-fp: Result, Either, Option and Maybe containers, their guards,     *)
(* combinators and the Promise / Array prototype additions.                *)
(*                                                                         *)
(* The library is stateless, so the state of the model is the call a       *)
(* caller is making (operation, family, arguments), the outcome of that    *)
(* call (value returned or error raised, with the log of the user          *)
(* callbacks it invoked) and, for the asynchronous conversions, the input  *)
(* promise, the pending reaction and the returned promise.                 *)
(***************************************************************************)
EXTENDS Integers, Sequences, FiniteSets, TLC

VARIABLES call, out, prom

vars == <<call, out, prom>>

(***************************************************************************)
(* Bounds of the explored inputs.                                          *)
(***************************************************************************)
MaxNum == 1
MaxLen == 2

(***************************************************************************)
(* Host (JavaScript) values.  Every value is a record of the same shape so *)
(* that any two values can be compared: ty is the typeof-like tag, n the   *)
(* numeric / boolean content, s the string content (string text, error     *)
(* message, function name) and items the elements of an array or the       *)
(* parts of a composed function.                                           *)
(***************************************************************************)
Null == [ty |-> "null", n |-> 0, s |-> "", items |-> <<>>]
Undefined == [ty |-> "undefined", n |-> 0, s |-> "", items |-> <<>>]
Num(k) == [ty |-> "number", n |-> k, s |-> "", items |-> <<>>]
Str(t) == [ty |-> "string", n |-> 0, s |-> t, items |-> <<>>]
Bool(b) == [ty |-> "boolean", n |-> IF b THEN 1 ELSE 0, s |-> "", items |-> <<>>]
Arr(xs) == [ty |-> "object", n |-> 0, s |-> "Array", items |-> xs]
Error(msg) == [ty |-> "object", n |-> 0, s |-> msg, items |-> <<>>]
Fn(name) == [ty |-> "function", n |-> 0, s |-> name, items |-> <<>>]

\* x => g(f(x))
Compose(g, f) == [ty |-> "function", n |-> 0, s |-> "compose", items |-> <<g, f>>]

\* v == null  (loose equality with null: true for null and undefined only)
LooseNull(v) == v.ty \in {"null", "undefined"}

\* ToBoolean(v), the test of the conditional operator
ToBoolean(v) ==
  CASE v.ty = "null" -> FALSE
    [] v.ty = "undefined" -> FALSE
    [] v.ty = "number" -> v.n # 0
    [] v.ty = "string" -> v.s # ""
    [] v.ty = "boolean" -> v.n = 1
    [] OTHER -> TRUE

(***************************************************************************)
(* Inputs: payload values, user callbacks, thunks.                         *)
(***************************************************************************)
Values ==
  {Null, Undefined, Str(""), Str("e"), Bool(FALSE)} \cup {Num(k) : k \in 0..MaxNum}

FnNames == {"id", "succ", "zero", "toNull", "toUndefined", "nullIfZero"}

Fns == {Fn(name) : name \in FnNames}

\* the value a user callback returns on argument x
RECURSIVE CallFn(_, _)
CallFn(f, x) ==
  CASE f.s = "compose" -> CallFn(f.items[1], CallFn(f.items[2], x))
    [] f.s = "id" -> x
    [] f.s = "succ" -> IF x.ty = "number" THEN Num(x.n + 1) ELSE x
    [] f.s = "zero" -> Num(0)
    [] f.s = "toNull" -> Null
    [] f.s = "toUndefined" -> Undefined
    [] f.s = "nullIfZero" -> IF x = Num(0) THEN Null ELSE x

\* a call of a user callback: its value and the entry it leaves in the log
Invoke(f, x) == [value |-> CallFn(f, x), calls |-> <<[fn |-> f, arg |-> x]>>]

\* typeof-like tag of any argument; a container is an object
TypeOf(x) == IF "ty" \in DOMAIN x THEN x.ty ELSE "object"

\* container-returning callbacks fn: (a: T) => Result<C, E> (Either, Option,
\* Maybe alike), by name; "bind" with items <<f, g>> is x => flatMap(f(x), g)
KleisliNames == {"pure", "failE", "failNull", "succOrFail", "zeroFails"}

Kleislis == {Fn(name) : name \in KleisliNames}

Bind(f, g) == [ty |-> "function", n |-> 0, s |-> "bind", items |-> <<f, g>>]

\* the container such a callback returns on argument x, in family fam
RECURSIVE CallK(_, _, _)

InvokeK(fam, f, x) == [value |-> CallK(fam, f, x), calls |-> <<[fn |-> f, arg |-> x]>>]

\* predicates predicate: (a: T) => boolean, by name
PredNames == {"isNumber", "isZero", "always", "never"}

Preds == {Fn(name) : name \in PredNames}

\* the boolean a predicate returns on argument x
CallPred(p, x) ==
  CASE p.s = "isNumber" -> Bool(x.ty = "number")
    [] p.s = "isZero" -> Bool(x = Num(0))
    [] p.s = "always" -> Bool(TRUE)
    [] p.s = "never" -> Bool(FALSE)

InvokePred(p, x) == [value |-> CallPred(p, x), calls |-> <<[fn |-> p, arg |-> x]>>]

\* fn: () => T, either returning a value or raising one
Thunks == [throws : BOOLEAN, value : Values]

(***************************************************************************)
(* Outcome of a call: returned value or raised error, and the callbacks    *)
(* invoked on the way.                                                     *)
(***************************************************************************)
Returns(v, calls) == [kind |-> "return", value |-> v, calls |-> calls]
Throws(e, calls) == [kind |-> "throw", value |-> e, calls |-> calls]

\* fn() inside a try block: what the block sees
RunThunk(fn) == [kind |-> IF fn.throws THEN "throw" ELSE "return", value |-> fn.value]

\* Promises: pending, or settled (fulfilled / rejected) with a value
Pending == [state |-> "pending"]
Fulfilled(v) == [state |-> "fulfilled", value |-> v]
Rejected(e) == [state |-> "rejected", value |-> e]

Settled == {Fulfilled(v) : v \in Values} \cup {Rejected(e) : e \in Values}

\* promise.then(onFulfilled, onRejected) on a settled promise: the one
\* handler that matches the settlement runs, on the value or the reason
Then(promise) ==
  [handler |-> IF promise.state = "fulfilled" THEN "onFulfilled" ELSE "onRejected",
   arg |-> promise.value]

\* await promise on a settled promise: the value, or the reason raised
Await(promise) ==
  [kind |-> IF promise.state = "fulfilled" THEN "return" ELSE "throw", value |-> promise.value]

Families == {"Result", "Either", "Option", "Maybe"}

(***************************************************************************)
(* Result                                                                  *)
(***************************************************************************)
done(v) == [v |-> v]
fail(e) == [e |-> e]

isDone(r) == "v" \in DOMAIN r
isFail(r) == "e" \in DOMAIN r

val(r) == r.v
err(r) == r.e

Result_fromNullable(value, error) ==
  IF LooseNull(value) THEN Returns(fail(error), <<>>) ELSE Returns(done(value), <<>>)

Result_fromThrowable(fn, onError) ==
  LET r == RunThunk(fn) IN
  IF r.kind = "return"
  THEN Returns(done(r.value), <<>>)
  ELSE LET c == Invoke(onError, r.value) IN Returns(fail(c.value), c.calls)

\* slip: the rejection reason is wrapped without going through onError
Result_fromPromise_unconverted(promise, onError) ==
  LET h == Then(promise) IN
  IF h.handler = "onFulfilled"
  THEN Returns(done(h.arg), <<>>)
  ELSE Returns(fail(h.arg), <<>>)

\* promise.then(done, (e) => fail(onError(e))): the reaction run on settlement
Result_fromPromise(promise, onError) ==
  LET h == Then(promise) IN
  IF h.handler = "onFulfilled"
  THEN Returns(done(h.arg), <<>>)
  ELSE LET c == Invoke(onError, h.arg) IN Returns(fail(c.value), c.calls)

Promise_toResult(this, onError) == Result_fromPromise(this, onError)

\* slip: the result of fn is not wrapped again
Result_map_unwrapped(r, fn) ==
  IF isDone(r)
  THEN LET c == Invoke(fn, val(r)) IN Returns(c.value, c.calls)
  ELSE Returns(r, <<>>)

Result_map(r, fn) ==
  IF isDone(r)
  THEN LET c == Invoke(fn, val(r)) IN Returns(done(c.value), c.calls)
  ELSE Returns(r, <<>>)

Result_flatMap(r, fn) ==
  IF isDone(r)
  THEN LET c == InvokeK("Result", fn, val(r)) IN Returns(c.value, c.calls)
  ELSE Returns(r, <<>>)

Result_getOrThrow(r) ==
  IF isDone(r) THEN Returns(val(r), <<>>) ELSE Throws(err(r), <<>>)

\* slip: the rejected payload is kept as the failure instead of onFalse
Result_filter_payloadAsFailure(r, predicate, onFalse) ==
  IF isDone(r)
  THEN LET c == InvokePred(predicate, val(r))
       IN IF ToBoolean(c.value) THEN Returns(r, c.calls) ELSE Returns(fail(val(r)), c.calls)
  ELSE Returns(r, <<>>)

Result_filter(r, predicate, onFalse) ==
  IF isDone(r)
  THEN LET c == InvokePred(predicate, val(r))
       IN IF ToBoolean(c.value) THEN Returns(r, c.calls) ELSE Returns(fail(onFalse), c.calls)
  ELSE Returns(r, <<>>)

\* slip: b is tested before a
Result_zip_rightFirst(a, b) ==
  IF isFail(b) THEN Returns(b, <<>>)
  ELSE IF isFail(a) THEN Returns(a, <<>>)
  ELSE Returns(done(Arr(<<val(a), val(b)>>)), <<>>)

Result_zip(a, b) ==
  IF isFail(a) THEN Returns(a, <<>>)
  ELSE IF isFail(b) THEN Returns(b, <<>>)
  ELSE Returns(done(Arr(<<val(a), val(b)>>)), <<>>)

\* slip: arg is tested before fn
Result_apply_argFirst(fn, arg) ==
  IF isFail(arg) THEN Returns(arg, <<>>)
  ELSE IF isFail(fn) THEN Returns(fn, <<>>)
  ELSE LET c == Invoke(val(fn), val(arg)) IN Returns(done(c.value), c.calls)

Result_apply(fn, arg) ==
  IF isFail(fn) THEN Returns(fn, <<>>)
  ELSE IF isFail(arg) THEN Returns(arg, <<>>)
  ELSE LET c == Invoke(val(fn), val(arg)) IN Returns(done(c.value), c.calls)

(***************************************************************************)
(* Either                                                                  *)
(***************************************************************************)
left(value) == [tag |-> "Left", value |-> value]
right(value) == [tag |-> "Right", value |-> value]

isLeft(e) == e.tag = "Left"
isRight(e) == e.tag = "Right"

getLeft(e) == e.value
getRight(e) == e.value

Either_fromNullable(value, error) ==
  IF LooseNull(value) THEN Returns(left(error), <<>>) ELSE Returns(right(value), <<>>)

Either_fromThrowable(fn, onError) ==
  LET r == RunThunk(fn) IN
  IF r.kind = "return"
  THEN Returns(right(r.value), <<>>)
  ELSE LET c == Invoke(onError, r.value) IN Returns(left(c.value), c.calls)

\* try { const value = await promise; return right(value) } catch (e) { ... }
Either_fromPromise(promise, onError) ==
  LET r == Await(promise) IN
  IF r.kind = "return"
  THEN Returns(right(r.value), <<>>)
  ELSE LET c == Invoke(onError, r.value) IN Returns(left(c.value), c.calls)

Promise_toEither(this, onError) ==
  LET r == Await(this) IN
  IF r.kind = "return"
  THEN Returns(right(r.value), <<>>)
  ELSE LET c == Invoke(onError, r.value) IN Returns(left(c.value), c.calls)

\* slip: fn is invoked before the tag is looked at
Either_map_eager(e, fn) ==
  LET c == Invoke(fn, e.value)
  IN IF isRight(e) THEN Returns(right(c.value), c.calls) ELSE Returns(e, c.calls)

Either_map(e, fn) ==
  IF isRight(e)
  THEN LET c == Invoke(fn, getRight(e)) IN Returns(right(c.value), c.calls)
  ELSE Returns(e, <<>>)

Either_flatMap(e, fn) ==
  IF isRight(e)
  THEN LET c == InvokeK("Either", fn, getRight(e)) IN Returns(c.value, c.calls)
  ELSE Returns(e, <<>>)

Either_getOrThrow(e) ==
  IF isRight(e) THEN Returns(getRight(e), <<>>) ELSE Throws(getLeft(e), <<>>)

Either_zip(a, b) ==
  IF isLeft(a) THEN Returns(a, <<>>)
  ELSE IF isLeft(b) THEN Returns(b, <<>>)
  ELSE Returns(right(Arr(<<getRight(a), getRight(b)>>)), <<>>)

Either_apply(fn, arg) ==
  IF isLeft(fn) THEN Returns(fn, <<>>)
  ELSE IF isLeft(arg) THEN Returns(arg, <<>>)
  ELSE LET c == Invoke(getRight(fn), getRight(arg)) IN Returns(right(c.value), c.calls)

(***************************************************************************)
(* Option                                                                  *)
(***************************************************************************)
none == [tag |-> "None"]
some(value) == [tag |-> "Some", value |-> value]

isSome(option) == option.tag = "Some"
isNone(option) == option.tag = "None"

unwrap(option) == option.value

\* slip: truthiness test (value ? some(value) : none()) instead of the null test
Option_fromNullable_truthy(value) ==
  IF ToBoolean(value) THEN Returns(some(value), <<>>) ELSE Returns(none, <<>>)

Option_fromNullable(value) ==
  IF LooseNull(value) THEN Returns(none, <<>>) ELSE Returns(some(value), <<>>)

Option_fromThrowable(fn) ==
  LET r == RunThunk(fn) IN
  IF r.kind = "return" THEN Returns(some(r.value), <<>>) ELSE Returns(none, <<>>)

Option_map(option, fn) ==
  IF isSome(option)
  THEN LET c == Invoke(fn, unwrap(option)) IN Returns(some(c.value), c.calls)
  ELSE Returns(none, <<>>)

\* slip: the container fn returns is wrapped again, as map does
Option_flatMap_wrapped(option, fn) ==
  IF isSome(option)
  THEN LET c == InvokeK("Option", fn, unwrap(option)) IN Returns(some(c.value), c.calls)
  ELSE Returns(none, <<>>)

Option_flatMap(option, fn) ==
  IF isSome(option)
  THEN LET c == InvokeK("Option", fn, unwrap(option)) IN Returns(c.value, c.calls)
  ELSE Returns(none, <<>>)

\* isSome(option) && predicate(unwrap(option)): the predicate runs on Some only
Option_filter(option, predicate) ==
  IF isSome(option)
  THEN LET c == InvokePred(predicate, unwrap(option))
       IN IF ToBoolean(c.value) THEN Returns(option, c.calls) ELSE Returns(none, c.calls)
  ELSE Returns(none, <<>>)

\* slip: absence yields undefined instead of raising
Option_getOrThrow_silent(option) ==
  IF isSome(option) THEN Returns(unwrap(option), <<>>) ELSE Returns(Undefined, <<>>)

Option_getOrThrow(option) ==
  IF isSome(option)
  THEN Returns(unwrap(option), <<>>)
  ELSE Throws(Error("Option is none"), <<>>)

Option_zip(a, b) ==
  IF isSome(a) /\ isSome(b)
  THEN Returns(some(Arr(<<unwrap(a), unwrap(b)>>)), <<>>)
  ELSE Returns(none, <<>>)

Option_apply(fn, opt) ==
  IF isSome(fn) /\ isSome(opt)
  THEN LET c == Invoke(unwrap(fn), unwrap(opt)) IN Returns(some(c.value), c.calls)
  ELSE Returns(none, <<>>)

\* this[0]: the first element, undefined when the array is empty
First(this) == IF Len(this) = 0 THEN Undefined ELSE this[1]

Array_firstOption(this) ==
  IF ToBoolean(First(this)) THEN some(First(this)) ELSE none

(***************************************************************************)
(* Maybe: the value itself, or null / undefined                            *)
(***************************************************************************)
just(value) == value
nothing == Undefined
nothingNull == Null
nothingUndefined == Undefined

isJust(m) == ~LooseNull(m)
\* slip: strict comparison with undefined only
isNothing_strict(m) == m = Undefined

isNothing(m) == LooseNull(m)

\* slip: no try / catch around fn()
Maybe_fromThrowable_uncaught(fn) ==
  LET r == RunThunk(fn) IN
  IF r.kind = "return" THEN Returns(r.value, <<>>) ELSE Throws(r.value, <<>>)

Maybe_fromThrowable(fn) ==
  LET r == RunThunk(fn) IN
  IF r.kind = "return" THEN Returns(r.value, <<>>) ELSE Returns(nothing, <<>>)

\* slip: truthiness test (m ? fn(m) : nothing()) instead of the null test
Maybe_map_truthy(m, fn) ==
  IF ToBoolean(m)
  THEN LET c == Invoke(fn, m) IN Returns(c.value, c.calls)
  ELSE Returns(nothing, <<>>)

Maybe_map(m, fn) ==
  IF isNothing(m)
  THEN Returns(nothing, <<>>)
  ELSE LET c == Invoke(fn, m) IN Returns(c.value, c.calls)

Maybe_flatMap(m, fn) ==
  IF isNothing(m)
  THEN Returns(nothing, <<>>)
  ELSE LET c == InvokeK("Maybe", fn, m) IN Returns(c.value, c.calls)

\* isJust(m) && predicate(m): the predicate runs on a just only
Maybe_filter(m, predicate) ==
  IF isJust(m)
  THEN LET c == InvokePred(predicate, m)
       IN IF ToBoolean(c.value) THEN Returns(m, c.calls) ELSE Returns(nothing, c.calls)
  ELSE Returns(nothing, <<>>)

Maybe_getOrThrow(m) ==
  IF isNothing(m) THEN Throws(Error("Maybe is nothing"), <<>>) ELSE Returns(m, <<>>)

Maybe_zip(a, b) ==
  IF isJust(a) /\ isJust(b) THEN Returns(Arr(<<a, b>>), <<>>) ELSE Returns(nothing, <<>>)

Maybe_apply(fn, opt) ==
  IF isJust(fn) /\ isJust(opt)
  THEN LET c == Invoke(fn, opt) IN Returns(c.value, c.calls)
  ELSE Returns(nothing, <<>>)

(***************************************************************************)
(* The namespace objects: one entry per family.                            *)
(***************************************************************************)
Constructors(fam) ==
  CASE fam = "Result" -> {"done", "fail"}
    [] fam = "Either" -> {"right", "left"}
    [] fam = "Option" -> {"some", "none"}
    [] fam = "Maybe" -> {"just", "nothing", "nothingNull", "nothingUndefined"}

Construct(ctor, x) ==
  CASE ctor = "done" -> done(x)
    [] ctor = "fail" -> fail(x)
    [] ctor = "right" -> right(x)
    [] ctor = "left" -> left(x)
    [] ctor = "some" -> some(x)
    [] ctor = "none" -> none
    [] ctor = "just" -> just(x)
    [] ctor = "nothing" -> nothing
    [] ctor = "nothingNull" -> nothingNull
    [] ctor = "nothingUndefined" -> nothingUndefined

\* the two guards of a family, presence first
Guards(fam, c) ==
  CASE fam = "Result" -> [pos |-> isDone(c), neg |-> isFail(c)]
    [] fam = "Either" -> [pos |-> isRight(c), neg |-> isLeft(c)]
    [] fam = "Option" -> [pos |-> isSome(c), neg |-> isNone(c)]
    [] fam = "Maybe" -> [pos |-> isJust(c), neg |-> isNothing(c)]

\* via is "fromNullable" or "new": the namespace objects bind both names to
\* the same function
fromNullable(fam, via, value, error) ==
  CASE fam = "Result" -> Result_fromNullable(value, error)
    [] fam = "Either" -> Either_fromNullable(value, error)
    [] fam = "Option" -> Option_fromNullable(value)

fromThrowable(fam, fn, onError) ==
  CASE fam = "Result" -> Result_fromThrowable(fn, onError)
    [] fam = "Either" -> Either_fromThrowable(fn, onError)
    [] fam = "Option" -> Option_fromThrowable(fn)
    [] fam = "Maybe" -> Maybe_fromThrowable(fn)

\* via is "function" for X.fromPromise and "prototype" for promise.toX
fromPromise(fam, via, promise, onError) ==
  CASE fam = "Result" /\ via = "function" -> Result_fromPromise(promise, onError)
    [] fam = "Result" /\ via = "prototype" -> Promise_toResult(promise, onError)
    [] fam = "Either" /\ via = "function" -> Either_fromPromise(promise, onError)
    [] fam = "Either" /\ via = "prototype" -> Promise_toEither(promise, onError)

map(fam, c, fn) ==
  CASE fam = "Result" -> Result_map(c, fn)
    [] fam = "Either" -> Either_map(c, fn)
    [] fam = "Option" -> Option_map(c, fn)
    [] fam = "Maybe" -> Maybe_map(c, fn)

flatMap(fam, c, fn) ==
  CASE fam = "Result" -> Result_flatMap(c, fn)
    [] fam = "Either" -> Either_flatMap(c, fn)
    [] fam = "Option" -> Option_flatMap(c, fn)
    [] fam = "Maybe" -> Maybe_flatMap(c, fn)

\* what the explored callbacks build: the presence variant of a family, and
\* its failure / absence variant (for Maybe null when asked for null)
Success(fam, x) ==
  CASE fam = "Result" -> done(x)
    [] fam = "Either" -> right(x)
    [] fam = "Option" -> some(x)
    [] fam = "Maybe" -> just(x)

Failure(fam, e) ==
  CASE fam = "Result" -> fail(e)
    [] fam = "Either" -> left(e)
    [] fam = "Option" -> none
    [] fam = "Maybe" -> IF e = Null THEN nothingNull ELSE nothing

CallK(fam, f, x) ==
  CASE f.s = "bind" -> flatMap(fam, CallK(fam, f.items[1], x), f.items[2]).value
    [] f.s = "pure" -> Success(fam, x)
    [] f.s = "failE" -> Failure(fam, Str("e"))
    [] f.s = "failNull" -> Failure(fam, Null)
    [] f.s = "succOrFail" ->
         IF TypeOf(x) = "number" THEN Success(fam, Num(x.n + 1)) ELSE Failure(fam, x)
    [] f.s = "zeroFails" ->
         IF x = Num(0) THEN Failure(fam, x) ELSE Success(fam, x)

filter(fam, c, predicate, onFalse) ==
  CASE fam = "Result" -> Result_filter(c, predicate, onFalse)
    [] fam = "Option" -> Option_filter(c, predicate)
    [] fam = "Maybe" -> Maybe_filter(c, predicate)

getOrThrow(fam, c) ==
  CASE fam = "Result" -> Result_getOrThrow(c)
    [] fam = "Either" -> Either_getOrThrow(c)
    [] fam = "Option" -> Option_getOrThrow(c)
    [] fam = "Maybe" -> Maybe_getOrThrow(c)

zip(fam, a, b) ==
  CASE fam = "Result" -> Result_zip(a, b)
    [] fam = "Either" -> Either_zip(a, b)
    [] fam = "Option" -> Option_zip(a, b)
    [] fam = "Maybe" -> Maybe_zip(a, b)

apply(fam, fn, arg) ==
  CASE fam = "Result" -> Result_apply(fn, arg)
    [] fam = "Either" -> Either_apply(fn, arg)
    [] fam = "Option" -> Option_apply(fn, arg)
    [] fam = "Maybe" -> Maybe_apply(fn, arg)

\* every container of a family: presence over the given payloads, failure
\* over every value (Result, Either) or the absence values (Option, Maybe)
Containers(fam, payloads) ==
  CASE fam = "Result" -> {done(x) : x \in payloads} \cup {fail(x) : x \in Values}
    [] fam = "Either" -> {right(x) : x \in payloads} \cup {left(x) : x \in Values}
    [] fam = "Option" -> {some(x) : x \in payloads} \cup {none}
    [] fam = "Maybe" -> {just(x) : x \in payloads} \cup {nothingNull, nothingUndefined}

\* the arrays of at most MaxLen values
Arrays == UNION {[1..k -> Values] : k \in 0..MaxLen}

(***************************************************************************)
(* The caller.  It makes one call at a time; an asynchronous conversion    *)
(* is followed until the returned promise settles.                         *)
(***************************************************************************)
Idle == [op |-> "idle"]
NoOutcome == [kind |-> "none"]
NoPromise == [phase |-> "none"]

Init ==
  /\ call = Idle
  /\ out = NoOutcome
  /\ prom = NoPromise

\* a constructor call followed by both guards of the family
CallGuards ==
  /\ call = Idle
  /\ \E fam \in Families : \E ctor \in Constructors(fam) : \E x \in Values :
       /\ call' = [op |-> "guards", fam |-> fam, ctor |-> ctor, x |-> x]
       /\ out' = Returns(Guards(fam, Construct(ctor, x)), <<>>)
  /\ UNCHANGED prom

CallFromNullable ==
  /\ call = Idle
  /\ \E fam \in {"Result", "Either", "Option"} : \E via \in {"fromNullable", "new"} :
     \E value \in Values : \E error \in Values :
       /\ call' = [op |-> "fromNullable", fam |-> fam, via |-> via,
                   value |-> value, error |-> error]
       /\ out' = fromNullable(fam, via, value, error)
  /\ UNCHANGED prom

CallFromThrowable ==
  /\ call = Idle
  /\ \E fam \in Families : \E fn \in Thunks : \E onError \in Fns :
       /\ call' = [op |-> "fromThrowable", fam |-> fam, fn |-> fn, onError |-> onError]
       /\ out' = fromThrowable(fam, fn, onError)
  /\ UNCHANGED prom

CallMap ==
  /\ call = Idle
  /\ \E fam \in Families : \E c \in Containers(fam, Values) : \E fn \in Fns :
       /\ call' = [op |-> "map", fam |-> fam, c |-> c, fn |-> fn]
       /\ out' = map(fam, c, fn)
  /\ UNCHANGED prom

\* map(map(c, f), g) next to map(c, x => g(f(x)))
CallMapTwice ==
  /\ call = Idle
  /\ \E fam \in Families : \E c \in Containers(fam, Values) : \E f \in Fns : \E g \in Fns :
       LET inner == map(fam, c, f)
           outer == map(fam, inner.value, g)
           fused == map(fam, c, Compose(g, f))
       IN /\ call' = [op |-> "mapTwice", fam |-> fam, c |-> c, f |-> f, g |-> g]
          /\ out' = Returns([nested |-> outer.value, fused |-> fused.value],
                            inner.calls \o outer.calls \o fused.calls)
  /\ UNCHANGED prom

\* flatMap(flatMap(c, f), g) next to flatMap(c, x => flatMap(f(x), g))
CallFlatMapTwice ==
  /\ call = Idle
  /\ \E fam \in Families : \E c \in Containers(fam, Values) :
     \E f \in Kleislis : \E g \in Kleislis :
       LET inner == flatMap(fam, c, f)
           outer == flatMap(fam, inner.value, g)
           fused == flatMap(fam, c, Bind(f, g))
       IN /\ call' = [op |-> "flatMapTwice", fam |-> fam, c |-> c, f |-> f, g |-> g]
          /\ out' = Returns([nested |-> outer.value, fused |-> fused.value],
                            inner.calls \o outer.calls \o fused.calls)
  /\ UNCHANGED prom

\* filter exists for Result (with onFalse), Option and Maybe
CallFilter ==
  /\ call = Idle
  /\ \E fam \in {"Result", "Option", "Maybe"} : \E c \in Containers(fam, Values) :
     \E predicate \in Preds : \E onFalse \in Values :
       /\ call' = [op |-> "filter", fam |-> fam, c |-> c,
                   predicate |-> predicate, onFalse |-> onFalse]
       /\ out' = filter(fam, c, predicate, onFalse)
  /\ UNCHANGED prom

CallGetOrThrow ==
  /\ call = Idle
  /\ \E fam \in Families : \E c \in Containers(fam, Values) :
       /\ call' = [op |-> "getOrThrow", fam |-> fam, c |-> c]
       /\ out' = getOrThrow(fam, c)
  /\ UNCHANGED prom

CallZip ==
  /\ call = Idle
  /\ \E fam \in Families : \E a \in Containers(fam, Values) : \E b \in Containers(fam, Values) :
       /\ call' = [op |-> "zip", fam |-> fam, a |-> a, b |-> b]
       /\ out' = zip(fam, a, b)
  /\ UNCHANGED prom

CallApply ==
  /\ call = Idle
  /\ \E fam \in Families : \E fn \in Containers(fam, Fns) : \E arg \in Containers(fam, Values) :
       /\ call' = [op |-> "apply", fam |-> fam, fn |-> fn, arg |-> arg]
       /\ out' = apply(fam, fn, arg)
  /\ UNCHANGED prom

CallFirstOption ==
  /\ call = Idle
  /\ \E xs \in Arrays :
       /\ call' = [op |-> "firstOption", xs |-> xs]
       /\ out' = Returns(Array_firstOption(xs), <<>>)
  /\ UNCHANGED prom

\* fromPromise / toResult / toEither is called on a promise that is pending
\* or already settled; the reaction waits for the settlement, or is queued
CallFromPromise ==
  /\ call = Idle
  /\ \E fam \in {"Result", "Either"} : \E via \in {"function", "prototype"} :
     \E onError \in Fns : \E promise \in {Pending} \cup Settled :
       /\ call' = [op |-> "fromPromise", fam |-> fam, via |-> via, onError |-> onError]
       /\ prom' = [phase |-> IF promise = Pending THEN "waiting" ELSE "queued",
                   input |-> promise, returned |-> Pending, settles |-> 0]
  /\ out' = NoOutcome

\* the input promise settles (at most once) and queues the reaction
SettleInput ==
  /\ prom.phase = "waiting"
  /\ \E s \in Settled :
       prom' = [prom EXCEPT !.phase = "queued", !.input = s]
  /\ UNCHANGED <<call, out>>

\* the queued reaction runs and settles the returned promise
RunReaction ==
  /\ prom.phase = "queued"
  /\ LET o == fromPromise(call.fam, call.via, prom.input, call.onError)
     IN /\ out' = o
        /\ prom' = [prom EXCEPT !.phase = "done",
                                !.returned = IF o.kind = "return"
                                             THEN Fulfilled(o.value)
                                             ELSE Rejected(o.value),
                                !.settles = @ + 1]
  /\ UNCHANGED call

\* the caller drops the result; the library keeps nothing
Discard ==
  /\ call # Idle
  /\ prom.phase \in {"none", "done"}
  /\ call' = Idle
  /\ out' = NoOutcome
  /\ prom' = NoPromise

Next ==
  \/ CallGuards
  \/ CallFromNullable
  \/ CallFromThrowable
  \/ CallMap
  \/ CallMapTwice
  \/ CallFlatMapTwice
  \/ CallFilter
  \/ CallGetOrThrow
  \/ CallZip
  \/ CallApply
  \/ CallFirstOption
  \/ CallFromPromise
  \/ SettleInput
  \/ RunReaction
  \/ Discard

Spec == Init /\ [][Next]_vars

\* the job queue of the host always drains: a queued reaction runs
FairSpec == Spec /\ WF_vars(RunReaction)

(***************************************************************************)
(* Vocabulary of the properties.  These read the shape of a container      *)
(* directly instead of going through the guards and accessors above.       *)
(***************************************************************************)
\* c is the success / presence variant of its family
Present(fam, c) ==
  CASE fam = "Result" -> DOMAIN c = {"v"}
    [] fam = "Either" -> c.tag = "Right"
    [] fam = "Option" -> c.tag = "Some"
    [] fam = "Maybe" -> c.ty \notin {"null", "undefined"}

\* the payload of a success / presence container
Payload(fam, c) ==
  CASE fam = "Result" -> c.v
    [] fam = "Either" -> c.value
    [] fam = "Option" -> c.value
    [] fam = "Maybe" -> c

\* the success / presence container holding x
Wrap(fam, x) ==
  CASE fam = "Result" -> [v |-> x]
    [] fam = "Either" -> [tag |-> "Right", value |-> x]
    [] fam = "Option" -> [tag |-> "Some", value |-> x]
    [] fam = "Maybe" -> x

\* the failure container holding e (Result, Either)
WrapFailure(fam, e) ==
  CASE fam = "Result" -> [e |-> e]
    [] fam = "Either" -> [tag |-> "Left", value |-> e]

\* r is the failure of c: the same failure container for Result and Either,
\* which carry a failure payload; the absence variant for Option and Maybe,
\* which carry none (for Maybe: null or undefined)
SameFailure(fam, c, r) ==
  CASE fam = "Result" -> r = c
    [] fam = "Either" -> r = c
    [] fam = "Option" -> r = [tag |-> "None"]
    [] fam = "Maybe" -> r.ty \in {"null", "undefined"}

PresenceConstructors == {"done", "right", "some", "just"}

(***************************************************************************)
(* C1 (as stated): for every value built by a constructor exactly one of   *)
(* the two guards of its family is true, and the true one is the guard     *)
(* matching the constructor used.                                          *)
(***************************************************************************)
C1_GuardMatchesConstructor ==
  call.op = "guards" =>
    /\ out.value.pos # out.value.neg
    /\ out.value.pos <=> (call.ctor \in PresenceConstructors)

(***************************************************************************)
(* C1 (amended): for every value built by a constructor exactly one of the *)
(* two guards of its family is true; the true one matches the constructor  *)
(* used, except that just(x) for x null or undefined is a nothing:         *)
(* isNothing is true of it and isJust false.                               *)
(***************************************************************************)
C1_GuardsExclusive ==
  call.op = "guards" =>
    /\ out.value.pos # out.value.neg
    /\ out.value.pos <=>
         IF call.ctor = "just"
         THEN call.x.ty \notin {"null", "undefined"}
         ELSE call.ctor \in PresenceConstructors

C1_JustNullIsNothing ==
  /\ call.op = "guards"
  /\ call.ctor = "just"
  /\ call.x = Null
  /\ out.value = [pos |-> FALSE, neg |-> TRUE]

(***************************************************************************)
(* C2: map(c, fn) on a success / presence container with payload x invokes *)
(* fn exactly once, on x, and returns the success / presence container     *)
(* holding fn(x); on a failure / absence container it invokes no callback, *)
(* raises nothing and returns the failure of c (the same fail / left for   *)
(* Result and Either, the absence variant for Option and Maybe).           *)
(***************************************************************************)
C2_MapContract ==
  call.op = "map" =>
    IF Present(call.fam, call.c)
    THEN LET x == Payload(call.fam, call.c)
         IN out = Returns(Wrap(call.fam, CallFn(call.fn, x)),
                          <<[fn |-> call.fn, arg |-> x]>>)
    ELSE /\ out.kind = "return"
         /\ out.calls = <<>>
         /\ SameFailure(call.fam, call.c, out.value)

C2_MapDone ==
  /\ call.op = "map"
  /\ call.c = [v |-> Num(1)]
  /\ call.fn = Fn("succ")
  /\ out = Returns([v |-> Num(2)], <<[fn |-> Fn("succ"), arg |-> Num(1)]>>)

(***************************************************************************)
(* C3: fromThrowable never propagates a raised error.  Whenever fn raises, *)
(* the call returns the failure / absence container (fail / left carrying  *)
(* onError(error), none, nothing); whenever fn returns normally, the call  *)
(* returns the success / presence container wrapping the result of fn.     *)
(* onError is a converter that returns normally.                           *)
(***************************************************************************)
C3_FromThrowableNeverRaises ==
  call.op = "fromThrowable" =>
    /\ out.kind = "return"
    /\ IF call.fn.throws
       THEN CASE call.fam \in {"Result", "Either"} ->
                   out.value = WrapFailure(call.fam, CallFn(call.onError, call.fn.value))
              [] call.fam = "Option" -> out.value = [tag |-> "None"]
              [] call.fam = "Maybe" -> out.value.ty \in {"null", "undefined"}
       ELSE out.value = Wrap(call.fam, call.fn.value)

C3_RaisedBecomesFailure ==
  /\ call.op = "fromThrowable"
  /\ call.fam = "Maybe"
  /\ call.fn = [throws |-> TRUE, value |-> Str("e")]
  /\ out = Returns(Undefined, <<>>)

(***************************************************************************)
(* C4: zip(a, b).  Both success / presence with payloads x and y: the      *)
(* success / presence container holding the pair [x, y]; a failure /       *)
(* absence: the failure of a, whatever b is; a success and b failure: the  *)
(* failure of b.  No callback is invoked and nothing is raised.            *)
(***************************************************************************)
C4_ZipLeftBiased ==
  call.op = "zip" =>
    /\ out.kind = "return"
    /\ out.calls = <<>>
    /\ IF ~Present(call.fam, call.a)
       THEN SameFailure(call.fam, call.a, out.value)
       ELSE IF ~Present(call.fam, call.b)
       THEN SameFailure(call.fam, call.b, out.value)
       ELSE out.value = Wrap(call.fam, Arr(<<Payload(call.fam, call.a),
                                             Payload(call.fam, call.b)>>))

C4_BothFailLeftWins ==
  /\ call.op = "zip"
  /\ call.a = [e |-> Str("e")]
  /\ call.b = [e |-> Str("")]
  /\ out.value = [e |-> Str("e")]

(***************************************************************************)
(* C5 (as stated): for every success / presence container c and all        *)
(* callbacks f and g, including for Maybe callbacks f returning null or    *)
(* undefined, map(map(c, f), g) equals map(c, x => g(f(x))).               *)
(***************************************************************************)
C5_MapComposition ==
  (call.op = "mapTwice" /\ Present(call.fam, call.c)) =>
    out.value.nested = out.value.fused

(***************************************************************************)
(* C5 (amended): for every success / presence container c and all          *)
(* callbacks f and g, map(map(c, f), g) equals map(c, x => g(f(x))),       *)
(* provided that, for Maybe, f does not return null or undefined on the    *)
(* payload of c.                                                           *)
(***************************************************************************)
C5_MapCompositionNonNull ==
  (/\ call.op = "mapTwice"
   /\ Present(call.fam, call.c)
   /\ ~(/\ call.fam = "Maybe"
        /\ CallFn(call.f, call.c).ty \in {"null", "undefined"})) =>
    out.value.nested = out.value.fused

C5_ComposedOnJust ==
  /\ call.op = "mapTwice"
  /\ call.fam = "Maybe"
  /\ call.c = Num(1)
  /\ call.f = Fn("zero")
  /\ call.g = Fn("succ")
  /\ out.value = [nested |-> Num(1), fused |-> Num(1)]

(***************************************************************************)
(* C6 (as stated): map(c, x => x) equals c for every success / presence    *)
(* container and returns the same failure / absence unchanged, for Maybe   *)
(* the very sentinel passed in (null for null, undefined for undefined).   *)
(***************************************************************************)
C6_MapIdentity ==
  (call.op = "map" /\ call.fn = Fn("id")) =>
    /\ out.kind = "return"
    /\ out.value = call.c

(***************************************************************************)
(* C6 (amended): map(c, x => x) equals c for every success / presence      *)
(* container and for every failure / absence container of Result, Either   *)
(* and Option; for Maybe it returns undefined for both null and undefined. *)
(***************************************************************************)
C6_MapIdentityUpToSentinel ==
  (call.op = "map" /\ call.fn = Fn("id")) =>
    /\ out.kind = "return"
    /\ out.value = IF call.fam = "Maybe" /\ call.c = Null THEN Undefined ELSE call.c

C6_NullBecomesUndefined ==
  /\ call.op = "map"
  /\ call.fam = "Maybe"
  /\ call.fn = Fn("id")
  /\ call.c = Null
  /\ out.value = Undefined

(***************************************************************************)
(* C7: fromPromise / toResult / toEither.  The returned promise stays      *)
(* pending until the input has settled and its reaction has run; it then   *)
(* settles exactly once: fulfilled input v gives the success container of  *)
(* v with onError never invoked; rejected input e gives the failure        *)
(* container of onError(e) with onError invoked exactly once, on e.  Once  *)
(* the input has settled the returned promise does settle.                 *)
(***************************************************************************)
C7_OnePath ==
  call.op = "fromPromise" =>
    /\ prom.settles <= 1
    /\ prom.phase # "done" =>
         /\ prom.returned = Pending
         /\ prom.settles = 0
         /\ out = NoOutcome
    /\ prom.phase = "done" =>
         /\ prom.settles = 1
         /\ IF prom.input.state = "fulfilled"
            THEN /\ prom.returned = Fulfilled(Wrap(call.fam, prom.input.value))
                 /\ out.calls = <<>>
            ELSE /\ prom.input.state = "rejected"
                 /\ prom.returned =
                      Fulfilled(WrapFailure(call.fam, CallFn(call.onError, prom.input.value)))
                 /\ out.calls = <<[fn |-> call.onError, arg |-> prom.input.value]>>

C7_InputSettled == call.op = "fromPromise" /\ prom.phase = "queued"

C7_ReturnedSettled == call.op = "fromPromise" /\ prom.phase = "done"

C7_FromPromiseSettlesOnce ==
  /\ []C7_OnePath
  /\ C7_InputSettled ~> C7_ReturnedSettled

C7_RejectionConverted ==
  /\ call.op = "fromPromise"
  /\ call.onError = Fn("zero")
  /\ prom.phase = "done"
  /\ prom.input = Rejected(Str("e"))
  /\ prom.returned = Fulfilled([e |-> Num(0)])

C9_GetOrThrowBoundary ==
  call.op = "getOrThrow" =>
    /\ out.calls = <<>>
    /\ IF Present(call.fam, call.c)
       THEN out.kind = "return" /\ out.value = Payload(call.fam, call.c)
       ELSE /\ out.kind = "throw"
            /\ CASE call.fam = "Result" -> out.value = call.c.e
                 [] call.fam = "Either" -> out.value = call.c.value
                 [] call.fam = "Option" -> out.value = Error("Option is none")
                 [] call.fam = "Maybe" -> out.value = Error("Maybe is nothing")

C9_FailPayloadRaised ==
  /\ call.op = "getOrThrow"
  /\ call.c = [e |-> Str("e")]
  /\ out = Throws(Str("e"), <<>>)

(***************************************************************************)
(* C10: apply(fnContainer, argContainer).  fnContainer failure / absence:  *)
(* the failure of fnContainer, whatever argContainer is; else argContainer *)
(* failure / absence: the failure of argContainer; else the wrapped        *)
(* function is invoked exactly once, on the wrapped argument, and the      *)
(* result is the success / presence container holding what it returned.    *)
(* The wrapped function is not invoked when either container is a failure. *)
(***************************************************************************)
C10_ApplyContract ==
  call.op = "apply" =>
    /\ out.kind = "return"
    /\ IF ~Present(call.fam, call.fn)
       THEN out.calls = <<>> /\ SameFailure(call.fam, call.fn, out.value)
       ELSE IF ~Present(call.fam, call.arg)
       THEN out.calls = <<>> /\ SameFailure(call.fam, call.arg, out.value)
       ELSE LET f == Payload(call.fam, call.fn)
                x == Payload(call.fam, call.arg)
            IN /\ out.calls = <<[fn |-> f, arg |-> x]>>
               /\ out.value = Wrap(call.fam, CallFn(f, x))

C10_BothFailFnWins ==
  /\ call.op = "apply"
  /\ call.fn = [e |-> Str("e")]
  /\ call.arg = [e |-> Str("")]
  /\ out = Returns([e |-> Str("e")], <<>>)

(***************************************************************************)
(* C11: flatMap associativity.  For every container c of Result, Either,   *)
(* Option and Maybe, success or failure, and all container-returning       *)
(* callbacks f and g, flatMap(flatMap(c, f), g) equals                     *)
(* flatMap(c, x => flatMap(f(x), g)).                                      *)
(***************************************************************************)
C11_FlatMapAssociative ==
  call.op = "flatMapTwice" =>
    /\ out.kind = "return"
    /\ out.value.nested = out.value.fused

C11_ChainedThroughBoth ==
  /\ call.op = "flatMapTwice"
  /\ call.c = [v |-> Num(0)]
  /\ call.f = Fn("succOrFail")
  /\ call.g = Fn("zeroFails")
  /\ out.value = [nested |-> [v |-> Num(1)], fused |-> [v |-> Num(1)]]

(***************************************************************************)
(* C12 (as stated): filter on a success / presence container whose payload *)
(* the predicate rejects gives the failure / absence variant (fail(onFalse)*)
(* for Result); accepted, the container passes through unchanged; an       *)
(* already failure / absence container passes through unchanged (same      *)
(* failure payload, same sentinel for Maybe) and the predicate is never    *)
(* invoked on it.                                                          *)
(***************************************************************************)
C12_FilterContract ==
  call.op = "filter" =>
    /\ out.kind = "return"
    /\ IF Present(call.fam, call.c)
       THEN LET x == Payload(call.fam, call.c)
            IN /\ out.calls = <<[fn |-> call.predicate, arg |-> x]>>
               /\ IF CallPred(call.predicate, x) = Bool(TRUE)
                  THEN out.value = call.c
                  ELSE CASE call.fam = "Result" -> out.value = [e |-> call.onFalse]
                         [] call.fam = "Option" -> out.value = [tag |-> "None"]
                         [] call.fam = "Maybe" -> out.value.ty \in {"null", "undefined"}
       ELSE /\ out.calls = <<>>
            /\ out.value = call.c

(***************************************************************************)
(* C12 (amended): as stated, except that for Maybe an already absent       *)
(* container comes back as undefined, for null as well as for undefined    *)
(* (null is not preserved).                                                *)
(***************************************************************************)
C12_FilterContractUpToSentinel ==
  call.op = "filter" =>
    /\ out.kind = "return"
    /\ IF Present(call.fam, call.c)
       THEN LET x == Payload(call.fam, call.c)
            IN /\ out.calls = <<[fn |-> call.predicate, arg |-> x]>>
               /\ IF CallPred(call.predicate, x) = Bool(TRUE)
                  THEN out.value = call.c
                  ELSE CASE call.fam = "Result" -> out.value = [e |-> call.onFalse]
                         [] call.fam = "Option" -> out.value = [tag |-> "None"]
                         [] call.fam = "Maybe" -> out.value.ty \in {"null", "undefined"}
       ELSE /\ out.calls = <<>>
            /\ out.value = IF call.fam = "Maybe" THEN Undefined ELSE call.c

C12_FilteredNullIsUndefined ==
  /\ call.op = "filter"
  /\ call.fam = "Maybe"
  /\ call.c = Null
  /\ out = Returns(Undefined, <<>>)

(***************************************************************************)
(* C13: fromNullable (also exposed as new) for Result, Either and Option   *)
(* gives the failure / absence variant (fail(error), left(error), none)    *)
(* if and only if value is null or undefined; for every other value,       *)
(* falsy ones such as 0, "" and false included, it gives the success /     *)
(* presence variant wrapping exactly that value.                           *)
(***************************************************************************)
C13_FromNullable ==
  call.op = "fromNullable" =>
    /\ out.kind = "return"
    /\ out.calls = <<>>
    /\ IF call.value.ty \in {"null", "undefined"}
       THEN CASE call.fam = "Result" -> out.value = [e |-> call.error]
              [] call.fam = "Either" -> out.value = [tag |-> "Left", value |-> call.error]
              [] call.fam = "Option" -> out.value = [tag |-> "None"]
       ELSE out.value = Wrap(call.fam, call.value)

C13_FalsyIsPresent ==
  /\ call.op = "fromNullable"
  /\ call.fam = "Option"
  /\ call.via = "new"
  /\ call.value = Num(0)
  /\ out = Returns([tag |-> "Some", value |-> Num(0)], <<>>)

====
